---- MODULE Spec2Model ----
(***************************************************************************)
(* Order identity and lifecycle backend: the order controller              *)
(* (createOrder, updateOrderStatus), the Order schema with its pre-save    *)
(* hook, and the registration route that shares the Counter collection.    *)
(*                                                                         *)
(* Storage is MongoDB through Mongoose.  Every awaited storage call is one *)
(* atomic step of the request that issues it; requests interleave between  *)
(* their awaited calls.  Document.save() is Mongoose's save pipeline:      *)
(* schema validation first (the built-in validateBeforeSave hook is the    *)
(* first pre-save hook), then the schema's own pre('save') hooks, then the *)
(* write (insert of a new document, $set of the modified paths of a        *)
(* loaded one).                                                            *)
(*                                                                         *)
(* Money: the prices of a request are decimal literals given in           *)
(* hundredths; what createOrder computes from them are JavaScript Numbers  *)
(* (IEEE doubles), computed operation by operation with their rounding.    *)
(* The totalAmount of an order that is already stored is a decimal in      *)
(* units of 1/Scale.                                                       *)
(***************************************************************************)
EXTENDS Integers, Sequences, FiniteSets, TLC

(***************************************************************************)
(* Bounds of the model.                                                    *)
(***************************************************************************)
NumReqs == 2
NumInitialOrders == 2
NumArchivedOrders == 23
\* the clock readings a save may take
MaxElapsed == 2
MaxInitialSequence == 60

Reqs == 1..NumReqs

(***************************************************************************)
(* Values.                                                                 *)
(***************************************************************************)
\* undefined / null / "" of a String path: all three are falsy in the hook's
\* test and all three fail a `required` validator of a String path.
NoValue == ""
NoDoc == [id |-> 0]
NoResp == [status |-> 0]

\* The totalAmount of a stored order: hundredths in units of 1/Scale.
Scale == 100 * 100
Cents(c) == c * 100

\* src/models/Order.js:51 100000 + counter.sequence
OrderIdBase == 100000

\* src/models/Order.js:25
StatusEnum == {"pending", "confirmed", "preparing", "out_for_delivery",
               "delivered", "cancelled", "returned", "refunded"}
\* src/models/Order.js:26
StatusDefault == "pending"
\* src/models/Order.js:30
PaymentStatusEnum == {"pending", "paid", "failed", "refunded"}
\* src/models/Order.js:35
PaymentMethodEnum == {"cash", "wallet", "card", "upi"}
\* src/models/Order.js:36
PaymentMethodDefault == "cash"

(***************************************************************************)
(* JavaScript Number: IEEE 754 binary64, round to nearest, ties to even.   *)
(* A Number is [neg, m, e] and stands for (-1)^neg * m * 2^e, where m is a *)
(* natural number of exactly 53 bits given by its limbs of 15 bits, least  *)
(* significant first (m = m[1] + m[2] * 2^15 + m[3] * 2^30 + ...); zero    *)
(* has m = <<>>.  The amounts of the requests lie far inside the range of  *)
(* the normal doubles: overflow, subnormals, NaN and -0 do not arise.      *)
(***************************************************************************)
LimbBits == 15
Limb == 32768
MantissaBits == 53

Pow2 == [n \in 0..LimbBits |-> 2^n]

\* Natural numbers of any size, as limbs without a leading zero limb.
Limbs == Seq(0..(Limb - 1))

natTrim[a \in Limbs] ==
    IF a # <<>> /\ a[Len(a)] = 0 THEN natTrim[SubSeq(a, 1, Len(a) - 1)] ELSE a

natOf[n \in Nat] ==
    natTrim[<<n % Limb, (n \div Limb) % Limb, n \div (Limb * Limb)>>]

natLimb[a \in Limbs, i \in Nat] == IF i <= Len(a) THEN a[i] ELSE 0

natAddFrom[a \in Limbs, b \in Limbs, i \in Nat, carry \in Nat] ==
    IF i > Len(a) /\ i > Len(b)
    THEN IF carry = 0 THEN <<>> ELSE <<carry>>
    ELSE <<(natLimb[a, i] + natLimb[b, i] + carry) % Limb>>
         \o natAddFrom[a, b, i + 1,
                       (natLimb[a, i] + natLimb[b, i] + carry) \div Limb]

natAdd[a \in Limbs, b \in Limbs] == natTrim[natAddFrom[a, b, 1, 0]]

\* a - b, for a >= b
natSubFrom[a \in Limbs, b \in Limbs, i \in Nat, borrow \in Nat] ==
    IF i > Len(a) THEN <<>>
    ELSE IF a[i] - natLimb[b, i] - borrow < 0
    THEN <<a[i] - natLimb[b, i] - borrow + Limb>>
         \o natSubFrom[a, b, i + 1, 1]
    ELSE <<a[i] - natLimb[b, i] - borrow>> \o natSubFrom[a, b, i + 1, 0]

natSub[a \in Limbs, b \in Limbs] == natTrim[natSubFrom[a, b, 1, 0]]

\* a * k, for a limb k
natMulLimbFrom[a \in Limbs, k \in Nat, i \in Nat, carry \in Nat] ==
    IF i > Len(a)
    THEN IF carry = 0 THEN <<>> ELSE <<carry>>
    ELSE <<(a[i] * k + carry) % Limb>>
         \o natMulLimbFrom[a, k, i + 1, (a[i] * k + carry) \div Limb]

natMulLimb[a \in Limbs, k \in Nat] == natTrim[natMulLimbFrom[a, k, 1, 0]]

\* a * Limb^n
natShiftLimbs[a \in Limbs, n \in Nat] ==
    IF a = <<>> THEN <<>> ELSE [i \in 1..n |-> 0] \o a

natMulFrom[a \in Limbs, b \in Limbs, i \in Nat] ==
    IF i > Len(b) THEN <<>>
    ELSE natAdd[natShiftLimbs[natMulLimb[a, b[i]], i - 1],
                natMulFrom[a, b, i + 1]]

natMul[a \in Limbs, b \in Limbs] == natMulFrom[a, b, 1]

\* a \div d, for 1 <= d < 2 * Limb: the limbs 1..i of the quotient, given
\* the remainder left by the limbs above them
natDivFrom[a \in Limbs, i \in Nat, d \in Nat, rem \in Nat] ==
    IF i = 0 THEN <<>>
    ELSE Append(natDivFrom[a, i - 1, d, (rem * Limb + a[i]) % d],
                (rem * Limb + a[i]) \div d)

natDiv[a \in Limbs, d \in Nat] == natTrim[natDivFrom[a, Len(a), d, 0]]

\* a % d, for 1 <= d < 2 * Limb, given the remainder left by the limbs
\* above limb i
natModFrom[a \in Limbs, i \in Nat, d \in Nat, rem \in Nat] ==
    IF i = 0 THEN rem ELSE natModFrom[a, i - 1, d, (rem * Limb + a[i]) % d]

natMod[a \in Limbs, d \in Nat] == natModFrom[a, Len(a), d, 0]

\* 1, 0 or -1 as a is above, equal to or below b
natCompareFrom[a \in Limbs, b \in Limbs, i \in Nat] ==
    IF i = 0 THEN 0
    ELSE IF a[i] > b[i] THEN 1
    ELSE IF a[i] < b[i] THEN -1
    ELSE natCompareFrom[a, b, i - 1]

natCompare[a \in Limbs, b \in Limbs] ==
    IF Len(a) > Len(b) THEN 1
    ELSE IF Len(a) < Len(b) THEN -1
    ELSE natCompareFrom[a, b, Len(a)]

\* the number of bits of a
natBits[a \in Limbs] ==
    IF a = <<>> THEN 0
    ELSE LimbBits * (Len(a) - 1)
         + (CHOOSE n \in 1..LimbBits :
               Pow2[n - 1] <= a[Len(a)] /\ a[Len(a)] < Pow2[n])

\* a * 2^n
natShiftLeft[a \in Limbs, n \in Nat] ==
    natShiftLimbs[natMulLimb[a, Pow2[n % LimbBits]], n \div LimbBits]

\* a \div 2^n
natShiftRight[a \in Limbs, n \in Nat] ==
    IF n \div LimbBits >= Len(a) THEN <<>>
    ELSE natDiv[SubSeq(a, (n \div LimbBits) + 1, Len(a)), Pow2[n % LimbBits]]

\* a % 2^n
natLowBits[a \in Limbs, n \in Nat] ==
    IF n \div LimbBits >= Len(a) THEN a
    ELSE natTrim[SubSeq(a, 1, n \div LimbBits)
                 \o <<a[(n \div LimbBits) + 1] % Pow2[n % LimbBits]>>]

Numbers == [neg : BOOLEAN, m : Limbs, e : Int]
Zero == [neg |-> FALSE, m |-> <<>>, e |-> 0]

\* q, a natural of 53 bits cut from the top of a longer one, rounded up or
\* not; `above` is 1, 0 or -1 as what was cut off is above, equal to or
\* below half a unit of q, and e is the exponent of q
roundUp[neg \in BOOLEAN, q \in Limbs, e \in Int, above \in Int] ==
    IF above = 1 \/ (above = 0 /\ q[1] % 2 = 1)
    THEN IF natBits[natAdd[q, <<1>>]] > MantissaBits
         THEN [neg |-> neg, m |-> natShiftRight[natAdd[q, <<1>>], 1],
               e |-> e + 1]
         ELSE [neg |-> neg, m |-> natAdd[q, <<1>>], e |-> e]
    ELSE [neg |-> neg, m |-> q, e |-> e]

\* The Number nearest to (-1)^neg * n * 2^e, or to a value just above it in
\* magnitude when `sticky` (a remainder was cut off below n): the 53 leading
\* bits of n, rounded to nearest, ties to even.
roundToNumber[neg \in BOOLEAN, n \in Limbs, e \in Int, sticky \in BOOLEAN] ==
    IF n = <<>> THEN Zero
    ELSE IF natBits[n] <= MantissaBits
    THEN [neg |-> neg,
          m   |-> natShiftLeft[n, MantissaBits - natBits[n]],
          e   |-> e - (MantissaBits - natBits[n])]
    ELSE roundUp[neg, natShiftRight[n, natBits[n] - MantissaBits],
                 e + natBits[n] - MantissaBits,
                 IF natCompare[natLowBits[n, natBits[n] - MantissaBits],
                               natShiftLeft[<<1>>,
                                            natBits[n] - MantissaBits - 1]] = 0
                    /\ sticky
                 THEN 1
                 ELSE natCompare[natLowBits[n, natBits[n] - MantissaBits],
                                 natShiftLeft[<<1>>,
                                              natBits[n] - MantissaBits - 1]]]

\* The Number a decimal literal denotes (JSON.parse of the body, a literal
\* of the source): the one nearest to n / d, for |n| < 2^31 and d < 2^16.
\* n / d is cut to GuardBits binary places, what is cut off being sticky.
GuardBits == 80
NumberOf[n \in Int, d \in Nat] ==
    roundToNumber[n < 0,
                  natDiv[natShiftLeft[natOf[IF n < 0 THEN -n ELSE n],
                                      GuardBits], d],
                  -GuardBits,
                  natMod[natShiftLeft[natOf[IF n < 0 THEN -n ELSE n],
                                      GuardBits], d] # 0]

\* 1, 0 or -1 as |x| is above, equal to or below |y|
compareMagnitude[x \in Numbers, y \in Numbers] ==
    IF x.m = <<>> \/ y.m = <<>>
    THEN (IF x.m # <<>> THEN 1 ELSE IF y.m # <<>> THEN -1 ELSE 0)
    ELSE IF x.e < y.e
    THEN natCompare[x.m, natShiftLeft[y.m, y.e - x.e]]
    ELSE natCompare[natShiftLeft[x.m, x.e - y.e], y.m]

signOf[x \in Numbers] == IF x.m = <<>> THEN 0 ELSE IF x.neg THEN -1 ELSE 1

\* x > y
greaterThan[x \in Numbers, y \in Numbers] ==
    IF signOf[x] # signOf[y] THEN signOf[x] > signOf[y]
    ELSE signOf[x] * compareMagnitude[x, y] = 1

\* |x| + |y| or the difference of |x| and |y|, for two natural numbers of
\* units 2^e, with the sign given or that of the larger
sumOf[neg \in BOOLEAN, nx \in Limbs, ny \in Limbs, e \in Int] ==
    roundToNumber[neg, natAdd[nx, ny], e, FALSE]

differenceOf[xneg \in BOOLEAN, nx \in Limbs, ny \in Limbs, e \in Int] ==
    IF natCompare[nx, ny] = 1
    THEN roundToNumber[xneg, natSub[nx, ny], e, FALSE]
    ELSE roundToNumber[~xneg, natSub[ny, nx], e, FALSE]

\* x + y
plus[x \in Numbers, y \in Numbers] ==
    IF x.m = <<>> THEN y
    ELSE IF y.m = <<>> THEN x
    ELSE IF x.neg = y.neg
    THEN IF x.e < y.e
         THEN sumOf[x.neg, x.m, natShiftLeft[y.m, y.e - x.e], x.e]
         ELSE sumOf[x.neg, natShiftLeft[x.m, x.e - y.e], y.m, y.e]
    ELSE IF x.e < y.e
         THEN differenceOf[x.neg, x.m, natShiftLeft[y.m, y.e - x.e], x.e]
         ELSE differenceOf[x.neg, natShiftLeft[x.m, x.e - y.e], y.m, y.e]

\* x * y
times[x \in Numbers, y \in Numbers] ==
    roundToNumber[x.neg # y.neg, natMul[x.m, y.m], x.e + y.e, FALSE]

\* src/unnamed/part_000:28 tax = subtotal * 0.08
TaxRate == NumberOf[8, 100]
\* src/unnamed/part_000:29 subtotal > 499 ? 0 : 5.99
FreeShippingAbove == NumberOf[499, 1]
ShippingFee == NumberOf[599, 100]

(***************************************************************************)
(* Number.prototype.toString for a non-negative integer.                   *)
(***************************************************************************)
Digit(d) ==
    CASE d = 0 -> "0" [] d = 1 -> "1" [] d = 2 -> "2" [] d = 3 -> "3"
      [] d = 4 -> "4" [] d = 5 -> "5" [] d = 6 -> "6" [] d = 7 -> "7"
      [] d = 8 -> "8" [] d = 9 -> "9"

RECURSIVE toString(_)
toString(n) ==
    IF n < 10 THEN Digit(n) ELSE toString(n \div 10) \o Digit(n % 10)

\* variant: the sequence appended to the text "100000" instead of added to
\* the number 100000
RenderOrderId_concatenated(sequence) == "ORD" \o "100000" \o toString(sequence)

\* `ORD${(100000 + counter.sequence).toString()}`
RenderOrderId(sequence) == "ORD" \o toString(OrderIdBase + sequence)

\* src/app.js:124 100000 + counter.sequence
CustomerIdBase == 100000
\* (100000 + counter.sequence).toString() of the registration route
RenderCustomerId(sequence) == toString(CustomerIdBase + sequence)

(***************************************************************************)
(* Request inputs.                                                         *)
(***************************************************************************)
\* A line item of the request body: price in hundredths, quantity.
Item(price, quantity) == [price |-> price, quantity |-> quantity]

ValidProducts == { <<Item(30000, 2)>>, <<Item(5000, 1)>>,
                   <<Item(20000, 1), Item(29900, 1)>>, <<Item(49901, 1)>>,
                   <<Item(10, 1), Item(16630, 3)>>, <<Item(49899, 1)>>,
                   <<Item(1200, 1)>> }
InvalidProducts == { <<>>, <<Item(1000, 0)>>, <<Item(0 - 500, 1)>> }
ProductInputs == ValidProducts \cup InvalidProducts

\* quantity >= 1 and price >= 0 for every item of a non-empty list
ValidLineItems(products) ==
    /\ Len(products) >= 1
    /\ \A i \in 1..Len(products) :
          products[i].quantity >= 1 /\ products[i].price >= 0

\* The delivery address the requests carry; the schema fills in the country.
DeliveryAddress == [name |-> "Asha", city |-> "Chennai"]

\* req.body of POST /create
CreateBody(userId, products, paymentMethod, useWallet) ==
    [userId |-> userId, products |-> products,
     deliveryAddress |-> DeliveryAddress,
     paymentMethod |-> paymentMethod, useWallet |-> useWallet]

UserIdInputs == {1, 2, 9}

CreateInputs ==
    { CreateBody(u, p, "card", FALSE) : u \in UserIdInputs, p \in ProductInputs }
    \cup { CreateBody(u, <<Item(5000, 1)>>, m, w) :
             u \in {1}, m \in {"upi", "paypal"}, w \in BOOLEAN }

\* req.params.orderId and req.body.status of PUT /update-status/:orderId
OrderIdInputs == { RenderOrderId(1), RenderOrderId(2), RenderOrderId(7) }
StatusInputs == {"pending", "delivered", "cancelled", "out_for_delivery",
                 "order_confirmed", "processing"}

\* req.body of POST /api/auth/register (name and address are present
\* whenever the phone number is; a missing field is a missing phone number)
\* req.query of the admin listing: the parameters that are present.
ListQuery(page, limit) == ("page" :> page) @@ ("limit" :> limit)

ListInputs ==
    { <<>>, ("status" :> "all"), ("status" :> "delivered"),
      ("status" :> "pending"),
      ListQuery(3, 10), ListQuery(4, 10), ListQuery(0, 10),
      ListQuery(2, 1) @@ ("status" :> "out_for_delivery") }

PhoneInputs == {"9000000001", "9000000002", NoValue}

(***************************************************************************)
(* State.                                                                  *)
(***************************************************************************)
VARIABLES
    registrations,  \* Registration collection: sequence of user documents
    counters,       \* Counter collection: counter name -> sequence
    orders,         \* Order collection: sequence of order documents
    pc,             \* per request: the await it is suspended at
    op,             \* per request: handler and request inputs
    loc,            \* per request: the handler's local variables
    resp,           \* per request: the response sent
    issued          \* history: per counter, the values its increments returned

vars == <<registrations, counters, orders, pc, op, loc, resp, issued>>

(***************************************************************************)
(* Counter collection (models/user/customerId).                            *)
(***************************************************************************)
CounterNames == {"orderId", "customerId"}

\* Counter.findOneAndUpdate({_id: name}, {$inc: {sequence: 1}},
\*                          {new: true, upsert: true})
\* One atomic storage operation: the row is created if absent, the sequence
\* is incremented, and the post-increment document is returned.
findOneAndUpdate_everyName(cs, name) ==
    \* variant: the update's filter left out, so that every row is incremented
    LET after == IF name \in DOMAIN cs
                 THEN [n \in DOMAIN cs |-> cs[n] + 1]
                 ELSE [n \in DOMAIN cs |-> cs[n] + 1] @@ (name :> 1)
    IN  [counters |-> after, sequence |-> after[name]]

findOneAndUpdate_insertZero(cs, name) ==
    \* variant: the row is inserted with sequence 0 and the increment is
    \* applied to existing rows only
    LET after == IF name \in DOMAIN cs
                 THEN [cs EXCEPT ![name] = @ + 1]
                 ELSE cs @@ (name :> 0)
    IN  [counters |-> after, sequence |-> after[name]]

findOneAndUpdate_setOnInsert(cs, name) ==
    \* variant: {$setOnInsert: {sequence: 1}} in place of {$inc: {sequence: 1}}
    LET after == IF name \in DOMAIN cs THEN cs ELSE cs @@ (name :> 1)
    IN  [counters |-> after, sequence |-> after[name]]

findOneAndUpdate(cs, name) ==
    LET after == IF name \in DOMAIN cs
                 THEN [cs EXCEPT ![name] = @ + 1]
                 ELSE cs @@ (name :> 1)
    IN  [counters |-> after, sequence |-> after[name]]

(***************************************************************************)
(* Registration collection (models/user/Registration).                     *)
(***************************************************************************)
\* Registration.findById(userId): the document or null
NoUser == [id |-> 0, name |-> NoValue, phoneNumber |-> NoValue,
           address |-> NoValue, customerId |-> NoValue]

findById(regs, userId) ==
    IF userId \in 1..Len(regs) THEN regs[userId] ELSE NoUser

\* Registration.findOne({ phoneNumber }): is there a document
existsPhone(regs, phoneNumber) ==
    \E i \in 1..Len(regs) : regs[i].phoneNumber = phoneNumber

(***************************************************************************)
(* Order schema (models/Order.js).                                         *)
(***************************************************************************)
\* A stored product subdocument: product reference, quantity, price.
Product(product, quantity, price) ==
    [product |-> product, quantity |-> quantity, price |-> price]

\* new Order(orderData): the schema is strict, so only the schema's paths
\* are kept.  Of orderData these are user, customerId, products[].price,
\* products[].quantity, totalAmount, status and paymentMethod
\* (deliveryAddress carries no behaviour and is left out); customerName,
\* customerPhone, customerEmail, customerAddress, subtotal, tax, shipping
\* and the items' productId, name, images, category are no paths of the
\* schema.  No orderId and no products[].product is supplied; paymentStatus
\* takes its default.
newOrder(orderData) ==
    [id            |-> 0,
     user          |-> orderData.user,
     customerId    |-> orderData.customerId,
     orderId       |-> NoValue,
     products      |-> [i \in 1..Len(orderData.products) |->
                          Product(NoValue, orderData.products[i].quantity,
                                  orderData.products[i].price)],
     totalAmount   |-> orderData.totalAmount,
     deliveryAddress |-> orderData.deliveryAddress @@ [country |-> "India"],
     createdAt     |-> 0,
     updatedAt     |-> 0,
     status        |-> orderData.status,
     paymentStatus |-> "pending",
     paymentMethod |-> orderData.paymentMethod]

\* Document.validate(): the paths whose validators fail.
validationErrors(doc) ==
    {"user" : x \in IF doc.user = 0 THEN {1} ELSE {}}
    \cup {"customerId" : x \in IF doc.customerId = NoValue THEN {1} ELSE {}}
    \cup {"orderId" : x \in IF doc.orderId = NoValue THEN {1} ELSE {}}
    \cup {"products.product" :
             i \in {j \in 1..Len(doc.products) :
                        doc.products[j].product = NoValue}}
    \cup {"status" : x \in IF doc.status \in StatusEnum THEN {} ELSE {1}}
    \cup {"paymentStatus" :
             x \in IF doc.paymentStatus \in PaymentStatusEnum THEN {} ELSE {1}}
    \cup {"paymentMethod" :
             x \in IF doc.paymentMethod \in PaymentMethodEnum THEN {} ELSE {1}}

\* orderSchema.pre('save'): a new document without orderId takes the next
\* value of the orderId counter.
preSave_everySave(doc, isNew, cs) ==
    \* variant: the hook without its `this.isNew && !this.orderId` test
    LET counter == findOneAndUpdate(cs, "orderId")
    IN  [doc      |-> [doc EXCEPT !.orderId = RenderOrderId(counter.sequence)],
         counters |-> counter.counters,
         issued   |-> <<counter.sequence>>]

preSave(doc, isNew, cs) ==
    IF isNew /\ doc.orderId = NoValue
    THEN LET counter == findOneAndUpdate(cs, "orderId")
         IN  [doc      |-> [doc EXCEPT !.orderId = RenderOrderId(counter.sequence)],
              counters |-> counter.counters,
              issued   |-> <<counter.sequence>>]
    ELSE [doc |-> doc, counters |-> cs, issued |-> <<>>]

\* unique index on orderId
duplicateKey(os, doc) ==
    \E i \in 1..Len(os) : os[i].orderId = doc.orderId

\* Order.findOne({ orderId }): the first matching document or null
findOne(os, orderId) ==
    IF \E i \in 1..Len(os) : os[i].orderId = orderId
    THEN os[CHOOSE i \in 1..Len(os) :
               /\ os[i].orderId = orderId
               /\ \A j \in 1..(i - 1) : os[j].orderId # orderId]
    ELSE NoDoc

\* A path of a document, undefined (NoValue) when the document has none.
Get(doc, path) == IF path \in DOMAIN doc THEN doc[path] ELSE NoValue

\* A query filter maps a path to the set of values it admits: {status: s}
\* admits {s}, {status: {$in: [...]}} admits the listed values, {} has no
\* path.
matches(doc, query) == \A path \in DOMAIN query : doc[path] \in query[path]

\* Order.find(query): the matching documents, in the order they are stored
find(os, query) == SelectSeq(os, LAMBDA doc : matches(doc, query))

\* Order.countDocuments(query)
countDocuments(os, query) == Len(find(os, query))

\* .sort({ createdAt: -1 }): the latest remaining document first
RECURSIVE sort(_)
sort(docs) ==
    IF docs = <<>> THEN <<>>
    ELSE LET i == CHOOSE i \in 1..Len(docs) :
                     \A j \in 1..Len(docs) :
                        docs[j].createdAt <= docs[i].createdAt
         IN  <<docs[i]>> \o sort(SubSeq(docs, 1, i - 1)
                                 \o SubSeq(docs, i + 1, Len(docs)))

\* .skip(n) and .limit(n)
skip(docs, n) == SubSeq(docs, n + 1, Len(docs))
limit(docs, n) == SubSeq(docs, 1, IF n < Len(docs) THEN n ELSE Len(docs))

\* .populate('user', ...): the user reference replaced by the user document
populate(docs, regs) ==
    [i \in 1..Len(docs) |-> [docs[i] EXCEPT !.user = findById(regs, @)]]

\* { $group: { _id: null, totalRevenue: { $sum: '$totalAmount' } } }
RECURSIVE sumTotalAmount(_)
sumTotalAmount(docs) ==
    IF docs = <<>> THEN 0
    ELSE docs[1].totalAmount + sumTotalAmount(Tail(docs))

\* variant: the $match stage left out
aggregate_noMatch(os) ==
    IF os = <<>> THEN <<>> ELSE <<[totalRevenue |-> sumTotalAmount(os)]>>

\* Order.aggregate([{ $match: { status: 'delivered' } }, { $group: ... }]):
\* one group when a document matches, none otherwise
aggregate(os) ==
    LET matched == find(os, ("status" :> {"delivered"}))
    IN  IF matched = <<>> THEN <<>>
        ELSE <<[totalRevenue |-> sumTotalAmount(matched)]>>

(***************************************************************************)
(* Derived financial fields (createOrder, "Calculate totals").             *)
(***************************************************************************)
\* item.price and item.quantity of the parsed body
priceOf(item) == NumberOf[item.price, 100]
quantityOf(item) == NumberOf[item.quantity, 1]

\* products.reduce((total, item) => total + item.price * item.quantity, 0)
RECURSIVE reduceSubtotal(_, _, _)
reduceSubtotal(products, i, total) ==
    IF i > Len(products) THEN total
    ELSE reduceSubtotal(products, i + 1,
                        plus[total, times[priceOf(products[i]),
                                          quantityOf(products[i])]])

subtotalOf(products) == reduceSubtotal(products, 1, Zero)
\* subtotal * 0.08
taxOf(subtotal) == times[subtotal, TaxRate]
\* subtotal > 499 ? 0 : 5.99
shippingOf(subtotal) ==
    IF greaterThan[subtotal, FreeShippingAbove] THEN Zero ELSE ShippingFee
\* subtotal + tax + shipping
totalAmountOf(subtotal, tax, shipping) == plus[plus[subtotal, tax], shipping]

(***************************************************************************)
(* Responses: res.status(code).json(body).                                 *)
(***************************************************************************)
NoData == [orderId |-> NoValue]

Response(status, error, details, data) ==
    [status |-> status, error |-> error, details |-> details, data |-> data]

Failure(status, error, details) == Response(status, error, details, NoData)

(***************************************************************************)
(* Initial state: the server starts against its database, which is either  *)
(* empty or holds one registered user and that user's orders as the schema *)
(* and the pre-save hook would have stored them.  No request is running.   *)
(***************************************************************************)
InitialUser ==
    [id |-> 1, name |-> "Asha", phoneNumber |-> "9000000001",
     address |-> "12 Lake Road", customerId |-> RenderCustomerId(1)]

SecondUser ==
    [id |-> 2, name |-> "Ravi", phoneNumber |-> "9000000003",
     address |-> "4 Hill Street", customerId |-> RenderCustomerId(2)]

\* The status the stored orders start with: a value of the schema's enum.
InitialStatus == "out_for_delivery"

\* Of the smaller store every second order has been delivered.
InitialStatusOf(k) == IF k % 2 = 0 THEN "delivered" ELSE InitialStatus

\* The k-th stored order of an initial store; createdAt is the position in
\* the order of creation.
InitialOrder(k) ==
    [id            |-> k,
     user          |-> 1,
     customerId    |-> RenderCustomerId(1),
     orderId       |-> RenderOrderId(k),
     products      |-> <<Product("product-1", 1, 5000)>>,
     totalAmount   |-> Cents(5999),
     deliveryAddress |-> DeliveryAddress @@ [country |-> "India"],
     createdAt     |-> k,
     updatedAt     |-> k,
     status        |-> InitialStatusOf(k),
     paymentStatus |-> "pending",
     paymentMethod |-> PaymentMethodDefault]

\* The k-th order of the larger store: the orders differ in customer, in
\* status (values the schema's enum admits) and in amount.
ArchivedStatus(k) ==
    CASE k % 4 = 3 -> "delivered"
      [] k % 4 = 0 -> "cancelled"
      [] OTHER     -> InitialStatus

ArchivedProducts(k) == IF k % 2 = 1 THEN <<Item(5000, 1)>> ELSE <<Item(30000, 2)>>

ArchivedOrder(k) ==
    LET customer == IF k % 5 = 0 THEN SecondUser ELSE InitialUser
    IN  [InitialOrder(k) EXCEPT
           !.user = customer.id,
           !.customerId = customer.customerId,
           !.products = <<Product("product-1", ArchivedProducts(k)[1].quantity,
                                  ArchivedProducts(k)[1].price)>>,
           !.totalAmount = IF k % 2 = 1 THEN Cents(5999) ELSE Cents(64800),
           !.status = ArchivedStatus(k)]

InitRequests ==
    /\ pc = [r \in Reqs |-> "idle"]
    /\ op = [r \in Reqs |-> [handler |-> "none"]]
    /\ loc = [r \in Reqs |-> NoDoc]
    /\ resp = [r \in Reqs |-> NoResp]

InitEmpty ==
    /\ registrations = <<>>
    /\ counters = <<>>
    /\ orders = <<>>
    /\ issued = [n \in CounterNames |-> <<>>]

InitPopulated ==
    /\ registrations = <<InitialUser>>
    /\ counters = ("customerId" :> 1) @@ ("orderId" :> NumInitialOrders)
    /\ orders = [k \in 1..NumInitialOrders |-> InitialOrder(k)]
    /\ issued = ("customerId" :> <<1>>)
                @@ ("orderId" :> [k \in 1..NumInitialOrders |-> k])

InitArchive ==
    /\ registrations = <<InitialUser, SecondUser>>
    /\ counters = ("customerId" :> 2) @@ ("orderId" :> NumArchivedOrders)
    /\ orders = [k \in 1..NumArchivedOrders |-> ArchivedOrder(k)]
    /\ issued = ("customerId" :> <<1, 2>>)
                @@ ("orderId" :> [k \in 1..NumArchivedOrders |-> k])

Init == InitRequests /\ (InitEmpty \/ InitPopulated \/ InitArchive)

(***************************************************************************)
(* A request that has sent its response.                                   *)
(***************************************************************************)
Respond(r, response) ==
    /\ pc' = [pc EXCEPT ![r] = "done"]
    /\ resp' = [resp EXCEPT ![r] = response]

(***************************************************************************)
(* exports.createOrder                                                     *)
(***************************************************************************)
CreateFailed(details) == Failure(500, "Failed to create order", details)

\* variant: no `if (!user)` test; reading user.customerId of null throws and
\* the catch block answers
createOrder_findById_noNullCheck(r) ==
    /\ pc[r] = "idle"
    /\ \E body \in CreateInputs :
          /\ op' = [op EXCEPT ![r] = [handler |-> "createOrder", body |-> body]]
          /\ \/ /\ Respond(r, CreateFailed({"storage"}))
                /\ UNCHANGED loc
             \/ LET user == findById(registrations, body.userId)
                IN  IF user = NoUser
                    THEN /\ Respond(r, CreateFailed({"TypeError"}))
                         /\ loc' = [loc EXCEPT ![r] = NoUser]
                    ELSE /\ pc' = [pc EXCEPT ![r] = "createOrder_save"]
                         /\ loc' = [loc EXCEPT ![r] = user]
                         /\ UNCHANGED resp
    /\ UNCHANGED <<registrations, counters, orders, issued>>

\* The request arrives and runs to `await Registration.findById(userId)`.
createOrder_findById(r) ==
    /\ pc[r] = "idle"
    /\ \E body \in CreateInputs :
          /\ op' = [op EXCEPT ![r] = [handler |-> "createOrder", body |-> body]]
          /\ \/ \* the query rejects: catch
                /\ Respond(r, CreateFailed({"storage"}))
                /\ UNCHANGED loc
             \/ LET user == findById(registrations, body.userId)
                IN  IF user = NoUser
                    THEN /\ Respond(r, Failure(404, "User not found", {}))
                         /\ loc' = [loc EXCEPT ![r] = NoUser]
                    ELSE /\ pc' = [pc EXCEPT ![r] = "createOrder_save"]
                         /\ loc' = [loc EXCEPT ![r] = user]
                         /\ UNCHANGED resp
    /\ UNCHANGED <<registrations, counters, orders, issued>>

\* variant: the wallet flag ignored
paymentMethodOf_ignoresWallet(useWallet, paymentMethod) == paymentMethod

\* paymentMethod: useWallet ? 'wallet' : paymentMethod
paymentMethodOf(useWallet, paymentMethod) ==
    IF useWallet THEN "wallet" ELSE paymentMethod

\* "Calculate totals": totalAmount = subtotal + tax + shipping, with the
\* totals it is computed from.
totalsWith(subtotal, tax, shipping) ==
    [subtotal    |-> subtotal,
     tax         |-> tax,
     shipping    |-> shipping,
     totalAmount |-> totalAmountOf(subtotal, tax, shipping)]

\* tax and shipping, each computed from the subtotal
totalsFrom(subtotal) ==
    totalsWith(subtotal, taxOf(subtotal), shippingOf(subtotal))

\* subtotal, tax, shipping and totalAmount of a line-item list
totalsOf(products) == totalsFrom(subtotalOf(products))

\* The totals of each line-item list of the inputs, computed once.
Totals == [products \in ProductInputs |-> totalsOf(products)]

\* "Create order data", given the totals computed before it
orderDataWith(body, user, totals) ==
    [user            |-> body.userId,
     customerId      |-> user.customerId,
     customerName    |-> user.name,
     customerPhone   |-> user.phoneNumber,
     customerAddress |-> user.address,
     products        |-> body.products,
     totalAmount     |-> totals.totalAmount,
     subtotal        |-> totals.subtotal,
     tax             |-> totals.tax,
     shipping        |-> totals.shipping,
     deliveryAddress |-> body.deliveryAddress,
     paymentMethod   |-> paymentMethodOf(body.useWallet, body.paymentMethod),
     status          |-> "order_confirmed"]

\* "Calculate totals" and "Create order data"
orderDataOf(body, user) == orderDataWith(body, user, Totals[body.products])

\* variant: the handler also saves the customer record, with the delivery
\* city as its address
createOrder_save_savesUser(r) ==
    /\ pc[r] = "createOrder_save"
    /\ LET orderData == orderDataOf(op[r].body, loc[r])
       IN  /\ loc' = [loc EXCEPT ![r] = orderData]
           /\ Respond(r, CreateFailed(validationErrors(newOrder(orderData))))
    /\ registrations' = [registrations EXCEPT
                            ![op[r].body.userId].address =
                                op[r].body.deliveryAddress.city]
    /\ UNCHANGED <<counters, orders, issued, op>>

\* variant: the handler allocates the orderId itself before saving and, when
\* save() fails, allocates again and saves once more before it answers
createOrder_save_retries(r) ==
    /\ pc[r] = "createOrder_save"
    /\ LET orderData == orderDataOf(op[r].body, loc[r])
           first == findOneAndUpdate(counters, "orderId")
           second == findOneAndUpdate(first.counters, "orderId")
       IN  /\ loc' = [loc EXCEPT ![r] = orderData]
           /\ counters' = second.counters
           /\ issued' = [issued EXCEPT !["orderId"] =
                            @ \o <<first.sequence, second.sequence>>]
           /\ Respond(r, CreateFailed(validationErrors(newOrder(orderData))))
    /\ UNCHANGED <<registrations, orders, op>>

\* The rest of the handler: totals, order data, new Order(orderData) and
\* `await order.save()`: validation, then the pre-save hook, then the insert.
\* validationErrors is non-empty for every document this handler builds (no
\* orderId at validation time, and status order_confirmed is outside the
\* schema's enum), so the branch that runs the hook and inserts is never
\* taken; CreateNeverValid states this.
createOrder_save(r) ==
    /\ pc[r] = "createOrder_save"
    /\ LET body == op[r].body
           orderData == orderDataOf(body, loc[r])
           order == newOrder(orderData)
           errors == validationErrors(order)
           hooked == preSave(order, TRUE, counters)
           saved == [hooked.doc EXCEPT !.id = Len(orders) + 1,
                                       !.createdAt = Len(orders) + 1]
       IN  /\ loc' = [loc EXCEPT ![r] = orderData]
           /\ IF errors # {}
              THEN /\ Respond(r, CreateFailed(errors))
                   /\ UNCHANGED <<counters, orders, issued>>
              ELSE \/ \* the hook's counter update rejects
                      /\ hooked.issued # <<>>
                      /\ Respond(r, CreateFailed({"storage"}))
                      /\ UNCHANGED <<counters, orders, issued>>
                   \/ \* the insert rejects
                      /\ counters' = hooked.counters
                      /\ issued' = [issued EXCEPT !["orderId"] = @ \o hooked.issued]
                      /\ Respond(r, CreateFailed({"storage"}))
                      /\ UNCHANGED orders
                   \/ /\ counters' = hooked.counters
                      /\ issued' = [issued EXCEPT !["orderId"] = @ \o hooked.issued]
                      /\ IF duplicateKey(orders, saved)
                         THEN /\ Respond(r, CreateFailed({"E11000"}))
                              /\ UNCHANGED orders
                         ELSE /\ orders' = Append(orders, saved)
                              /\ Respond(r, Response(201, NoValue, {},
                                     [orderId     |-> saved.orderId,
                                      totalAmount |-> saved.totalAmount,
                                      status      |-> saved.status]))
    /\ UNCHANGED <<registrations, op>>

(***************************************************************************)
(* exports.updateOrderStatus                                               *)
(***************************************************************************)
UpdateFailed == Failure(500, "Failed to update order status", {})

\* A handler's locals once its catch block has run: `error` is what was
\* thrown (a rejected storage call, a ValidationError, a TypeError).
Caught(locals, error) == locals @@ [error |-> error]

\* variant: no `if (!order)` test; assigning order.status of null throws and
\* the catch block answers
updateOrderStatus_findOne_noNullCheck(r) ==
    /\ pc[r] = "idle"
    /\ \E orderId \in OrderIdInputs, status \in StatusInputs :
          /\ op' = [op EXCEPT ![r] = [handler |-> "updateOrderStatus",
                                      orderId |-> orderId, status |-> status]]
          /\ \/ \* the query rejects: catch
                /\ Respond(r, UpdateFailed)
                /\ loc' = [loc EXCEPT ![r] = Caught(NoDoc, "storage")]
             \/ LET order == findOne(orders, orderId)
                IN  IF order = NoDoc
                    THEN /\ Respond(r, UpdateFailed)
                         /\ loc' = [loc EXCEPT ![r] = Caught(NoDoc, "TypeError")]
                    ELSE /\ pc' = [pc EXCEPT ![r] = "updateOrderStatus_save"]
                         /\ loc' = [loc EXCEPT ![r] = order]
                         /\ UNCHANGED resp
    /\ UNCHANGED <<registrations, counters, orders, issued>>

\* The request arrives and runs to `await Order.findOne({ orderId })`.
updateOrderStatus_findOne(r) ==
    /\ pc[r] = "idle"
    /\ \E orderId \in OrderIdInputs, status \in StatusInputs :
          /\ op' = [op EXCEPT ![r] = [handler |-> "updateOrderStatus",
                                      orderId |-> orderId, status |-> status]]
          /\ \/ \* the query rejects: catch
                /\ Respond(r, UpdateFailed)
                /\ loc' = [loc EXCEPT ![r] = Caught(NoDoc, "storage")]
             \/ LET order == findOne(orders, orderId)
                IN  IF order = NoDoc
                    THEN /\ Respond(r, Failure(404, "Order not found", {}))
                         /\ UNCHANGED loc
                    ELSE /\ pc' = [pc EXCEPT ![r] = "updateOrderStatus_save"]
                         /\ loc' = [loc EXCEPT ![r] = order]
                         /\ UNCHANGED resp
    /\ UNCHANGED <<registrations, counters, orders, issued>>

\* The paths of a loaded document that differ from their loaded values.
modifiedPaths(loaded, doc) ==
    {"status" : x \in IF doc.status # loaded.status THEN {1} ELSE {}}
    \cup {"orderId" : x \in IF doc.orderId # loaded.orderId THEN {1} ELSE {}}
    \cup {"updatedAt" :
             x \in IF doc.updatedAt # loaded.updatedAt THEN {1} ELSE {}}

\* Date.now() at a save: a time after the stored orders were created.
Now == (NumArchivedOrders + 1)..(NumArchivedOrders + MaxElapsed)

\* timestamps: true, on save() of a loaded document: a document with a
\* modified path gets updatedAt = now, an unmodified one is left alone.
timestamps(loaded, doc, now) ==
    IF modifiedPaths(loaded, doc) # {} THEN [doc EXCEPT !.updatedAt = now]
    ELSE doc

\* variant: nothing is written
updateOne_skipped(stored, loaded, doc) == stored

\* save() of a loaded document: $set of its modified paths on the stored one
updateOne(stored, loaded, doc) ==
    [stored EXCEPT
       !.status = IF "status" \in modifiedPaths(loaded, doc)
                  THEN doc.status ELSE @,
       !.orderId = IF "orderId" \in modifiedPaths(loaded, doc)
                   THEN doc.orderId ELSE @,
       !.updatedAt = IF "updatedAt" \in modifiedPaths(loaded, doc)
                     THEN doc.updatedAt ELSE @]

\* variant: the write is filtered by the order's user instead of its _id
saveLoaded_byUser(os, loaded, doc) ==
    [i \in 1..Len(os) |->
        IF os[i].user = loaded.user THEN updateOne(os[i], loaded, doc)
        ELSE os[i]]

\* save() of a loaded document writes to the stored document with its _id.
saveLoaded(os, loaded, doc) ==
    [os EXCEPT ![loaded.id] = updateOne(@, loaded, doc)]

\* `order.status = status; await order.save()` on the document as it was
\* loaded: validation of the document, the timestamps of the schema, the
\* pre-save hook (not a new document), then the write of the modified
\* paths.  Assigning the value the loaded document already has marks nothing
\* modified; save() then leaves updatedAt alone, writes nothing and only
\* asks the collection whether the document still exists (no request
\* deletes an order, so it does).
updateOrderStatus_save(r) ==
    /\ pc[r] = "updateOrderStatus_save"
    /\ LET loaded == loc[r]
           order == [loaded EXCEPT !.status = op[r].status]
           errors == validationErrors(order)
       IN  IF errors # {}
           THEN /\ Respond(r, UpdateFailed)
                /\ loc' = [loc EXCEPT ![r] = Caught(order, "ValidationError")]
                /\ UNCHANGED <<counters, orders, issued>>
           ELSE \E now \in Now :
                LET hooked == preSave(timestamps(loaded, order, now), FALSE,
                                      counters)
                IN  \/ \* the hook's counter update rejects
                       /\ hooked.issued # <<>>
                       /\ Respond(r, UpdateFailed)
                       /\ loc' = [loc EXCEPT ![r] = Caught(order, "storage")]
                       /\ UNCHANGED <<counters, orders, issued>>
                    \/ \* the round trip of the save rejects: the update of
                       \* the modified paths or, with none modified, the
                       \* check that the document still exists
                       /\ counters' = hooked.counters
                       /\ issued' = [issued EXCEPT !["orderId"] =
                                                      @ \o hooked.issued]
                       /\ Respond(r, UpdateFailed)
                       /\ loc' = [loc EXCEPT ![r] =
                                     Caught(hooked.doc, "storage")]
                       /\ UNCHANGED orders
                    \/ /\ counters' = hooked.counters
                       /\ issued' = [issued EXCEPT !["orderId"] =
                                                      @ \o hooked.issued]
                       /\ orders' = saveLoaded(orders, loaded, hooked.doc)
                       /\ loc' = [loc EXCEPT ![r] = hooked.doc]
                       /\ Respond(r, Response(200, NoValue, {},
                              [orderId |-> hooked.doc.orderId,
                               status  |-> hooked.doc.status]))
    /\ UNCHANGED <<registrations, op>>

(***************************************************************************)
(* exports.getCustomerOrders                                               *)
(***************************************************************************)
FetchFailed == Failure(500, "Failed to fetch orders", {})

\* orders.map(order => ({ _id, orderId, status, ... }))
ordersWithCleanData(found) ==
    [i \in 1..Len(found) |->
        [id              |-> found[i].id,
         orderId         |-> found[i].orderId,
         status          |-> found[i].status,
         totalAmount     |-> found[i].totalAmount,
         products        |-> found[i].products,
         deliveryAddress |-> found[i].deliveryAddress,
         paymentMethod   |-> found[i].paymentMethod,
         orderDate       |-> Get(found[i], "orderDate"),
         createdAt       |-> found[i].createdAt]]

\* variant: the filter on the user left out of the query
customerQuery_everyone(userId) == <<>>

\* { user: userId }
customerQuery(userId) == ("user" :> {userId})

\* The whole handler: one awaited query, then the response.
getCustomerOrders(r) ==
    /\ pc[r] = "idle"
    /\ \E userId \in UserIdInputs :
          /\ op' = [op EXCEPT ![r] = [handler |-> "getCustomerOrders",
                                      userId |-> userId]]
          /\ \/ \* the query rejects: catch
                /\ Respond(r, FetchFailed)
                /\ loc' = [loc EXCEPT ![r] = Caught(NoDoc, "storage")]
             \/ LET found == sort(find(orders, customerQuery(userId)))
                IN  /\ Respond(r, Response(200, NoValue, {},
                                           ordersWithCleanData(found)))
                    /\ loc' = [loc EXCEPT ![r] = [orders |-> found]]
    /\ UNCHANGED <<registrations, counters, orders, issued>>

(***************************************************************************)
(* exports.getAllOrders                                                    *)
(***************************************************************************)
\* const { page = 1, limit = 10, status } = req.query
pageOf(query) == IF "page" \in DOMAIN query THEN query.page ELSE 1
limitOf(query) == IF "limit" \in DOMAIN query THEN query.limit ELSE 10

\* Math.ceil(a / b) for a >= 0 and b >= 1
ceil(a, b) == IF a % b = 0 THEN a \div b ELSE (a \div b) + 1

\* variant: every status taken as a filter, "all" included
statusQuery_noSentinel(query) ==
    IF "status" \in DOMAIN query THEN ("status" :> {query.status}) ELSE <<>>

\* let query = {}; if (status && status !== 'all') query.status = status
statusQuery(query) ==
    IF "status" \in DOMAIN query /\ query.status # NoValue
       /\ query.status # "all"
    THEN ("status" :> {query.status})
    ELSE <<>>

\* orders.map(order => ({ orderId, customerName, ... })): customerName,
\* customerPhone, customerEmail, customerAddress, orderDate and the products'
\* name and category are read off the order document, which has the schema's
\* paths only.
cleanOrders(found) ==
    [i \in 1..Len(found) |->
        [orderId         |-> found[i].orderId,
         customerName    |-> Get(found[i], "customerName"),
         customerPhone   |-> Get(found[i], "customerPhone"),
         customerEmail   |-> Get(found[i], "customerEmail"),
         customerAddress |-> Get(found[i], "customerAddress"),
         products        |-> [j \in 1..Len(found[i].products) |->
                                [name     |-> Get(found[i].products[j], "name"),
                                 price    |-> found[i].products[j].price,
                                 quantity |-> found[i].products[j].quantity,
                                 total    |-> found[i].products[j].price
                                              * found[i].products[j].quantity,
                                 category |-> Get(found[i].products[j],
                                                  "category")]],
         totalAmount     |-> found[i].totalAmount,
         status          |-> found[i].status,
         paymentMethod   |-> found[i].paymentMethod,
         orderDate       |-> Get(found[i], "orderDate"),
         deliveryAddress |-> found[i].deliveryAddress]]

\* variant: hasNextPage computed as page <= totalPages
pagination_inclusive(page, pageSize, totalOrders) ==
    [currentPage |-> page,
     totalPages  |-> ceil(totalOrders, pageSize),
     totalOrders |-> totalOrders,
     hasNextPage |-> page <= ceil(totalOrders, pageSize),
     hasPrevPage |-> page > 1]

\* pagination: { currentPage, totalPages, totalOrders, hasNextPage,
\*               hasPrevPage }
pagination(page, pageSize, totalOrders) ==
    [currentPage |-> page,
     totalPages  |-> ceil(totalOrders, pageSize),
     totalOrders |-> totalOrders,
     hasNextPage |-> page < ceil(totalOrders, pageSize),
     hasPrevPage |-> page > 1]

\* variant: the page is not skipped to
pageOfOrders_noSkip(os, query) ==
    limit(sort(find(os, statusQuery(query))), limitOf(query))

\* Order.find(query).sort({ createdAt: -1 }).skip(skip)
\*      .limit(parseInt(limit)): the query on the orders
pageOfOrders(os, query) ==
    limit(skip(sort(find(os, statusQuery(query))),
               (pageOf(query) - 1) * limitOf(query)),
          limitOf(query))

\* The awaited expression of the page is two round trips: the query on the
\* orders, then the populate query on the registrations, which is not sent
\* when the page is empty.  This is the first: a negative skip is refused by
\* the query, which rejects.
getAllOrders_find(r) ==
    /\ pc[r] = "idle"
    /\ \E query \in ListInputs :
          /\ op' = [op EXCEPT ![r] = [handler |-> "getAllOrders",
                                      query |-> query]]
          /\ \/ \* the query rejects: catch
                /\ Respond(r, FetchFailed)
                /\ loc' = [loc EXCEPT ![r] = Caught(NoDoc, "storage")]
             \/ /\ (pageOf(query) - 1) * limitOf(query) < 0
                /\ Respond(r, FetchFailed)
                /\ loc' = [loc EXCEPT ![r] = Caught(NoDoc, "skip")]
             \/ /\ (pageOf(query) - 1) * limitOf(query) >= 0
                /\ pc' = [pc EXCEPT ![r] =
                             IF pageOfOrders(orders, query) = <<>>
                             THEN "getAllOrders_countDocuments"
                             ELSE "getAllOrders_populate"]
                /\ loc' = [loc EXCEPT ![r] =
                              [orders |-> pageOfOrders(orders, query)]]
                /\ UNCHANGED resp
    /\ UNCHANGED <<registrations, counters, orders, issued>>

\* The populate query on the registrations, for the users of the page.
getAllOrders_populate(r) ==
    /\ pc[r] = "getAllOrders_populate"
    /\ \/ \* the query rejects: catch
          /\ Respond(r, FetchFailed)
          /\ loc' = [loc EXCEPT ![r] = Caught(@, "storage")]
       \/ /\ pc' = [pc EXCEPT ![r] = "getAllOrders_countDocuments"]
          /\ loc' = [loc EXCEPT ![r] =
                        [orders |-> populate(@.orders, registrations)]]
          /\ UNCHANGED resp
    /\ UNCHANGED <<registrations, counters, orders, issued, op>>

\* `await Order.countDocuments(query)` and the response.
getAllOrders_countDocuments(r) ==
    /\ pc[r] = "getAllOrders_countDocuments"
    /\ \/ \* the count rejects: catch
          /\ Respond(r, FetchFailed)
          /\ loc' = [loc EXCEPT ![r] = Caught(@, "storage")]
       \/ LET query == op[r].query
              totalOrders == countDocuments(orders, statusQuery(query))
          IN  /\ Respond(r, Response(200, NoValue, {},
                                     cleanOrders(loc[r].orders))
                            @@ [pagination |->
                                   pagination(pageOf(query), limitOf(query),
                                              totalOrders)])
              /\ loc' = [loc EXCEPT ![r] = @ @@ [totalOrders |-> totalOrders]]
    /\ UNCHANGED <<registrations, counters, orders, issued, op>>

(***************************************************************************)
(* exports.getOrderStats                                                   *)
(***************************************************************************)
StatsFailed == Failure(500, "Failed to fetch order statistics", {})

\* { status: { $in: [...] } } of pendingOrders
PendingStatuses == {"order_confirmed", "processing", "packed", "shipped",
                    "out_for_delivery"}

\* A quotient of two numbers, kept exact as the pair it is formed from.
Quotient(numerator, denominator) ==
    [numerator |-> numerator, denominator |-> denominator]

\* variant: the division is not guarded
avgOrderValueOf_unguarded(totalOrders, totalRevenue) ==
    Quotient(totalRevenue, totalOrders)

\* totalOrders > 0 ? totalRevenue / totalOrders : 0
avgOrderValueOf(totalOrders, totalRevenue) ==
    IF totalOrders > 0 THEN Quotient(totalRevenue, totalOrders)
    ELSE Quotient(0, 1)

\* revenueResult.length > 0 ? revenueResult[0].totalRevenue : 0
totalRevenueOf(revenueResult) ==
    IF Len(revenueResult) > 0 THEN revenueResult[1].totalRevenue ELSE 0

\* One awaited read of the handler: on rejection the catch answers, otherwise
\* the value read is kept in the local `name` and the handler goes on to the
\* await `next`.
StatsRead(r, at, name, value, next) ==
    /\ pc[r] = at
    /\ \/ /\ Respond(r, StatsFailed)
          /\ loc' = [loc EXCEPT ![r] = Caught(@, "storage")]
       \/ /\ pc' = [pc EXCEPT ![r] = next]
          /\ loc' = [loc EXCEPT ![r] = @ @@ (name :> value)]
          /\ UNCHANGED resp

\* const totalOrders = await Order.countDocuments()
getOrderStats_totalOrders(r) ==
    /\ pc[r] = "idle"
    /\ op' = [op EXCEPT ![r] = [handler |-> "getOrderStats"]]
    /\ \/ /\ Respond(r, StatsFailed)
          /\ loc' = [loc EXCEPT ![r] = Caught(NoDoc, "storage")]
       \/ /\ pc' = [pc EXCEPT ![r] = "getOrderStats_deliveredOrders"]
          /\ loc' = [loc EXCEPT ![r] =
                        [totalOrders |-> countDocuments(orders, <<>>)]]
          /\ UNCHANGED resp
    /\ UNCHANGED <<registrations, counters, orders, issued>>

\* const deliveredOrders = await Order.countDocuments({ status: 'delivered' })
getOrderStats_deliveredOrders(r) ==
    /\ StatsRead(r, "getOrderStats_deliveredOrders", "deliveredOrders",
                 countDocuments(orders, ("status" :> {"delivered"})),
                 "getOrderStats_pendingOrders")
    /\ UNCHANGED <<registrations, counters, orders, issued, op>>

\* const pendingOrders = await Order.countDocuments({ status: { $in: ... } })
getOrderStats_pendingOrders(r) ==
    /\ StatsRead(r, "getOrderStats_pendingOrders", "pendingOrders",
                 countDocuments(orders, ("status" :> PendingStatuses)),
                 "getOrderStats_aggregate")
    /\ UNCHANGED <<registrations, counters, orders, issued, op>>

\* const revenueResult = await Order.aggregate([...])
getOrderStats_aggregate(r) ==
    /\ StatsRead(r, "getOrderStats_aggregate", "revenueResult",
                 aggregate(orders), "getOrderStats_customerCount")
    /\ UNCHANGED <<registrations, counters, orders, issued, op>>

\* variant: the customer count taken by incrementing the customerId counter
getOrderStats_customerCount_fromCounter(r) ==
    /\ pc[r] = "getOrderStats_customerCount"
    /\ Respond(r, StatsFailed)
    /\ counters' = findOneAndUpdate(counters, "customerId").counters
    /\ issued' = [issued EXCEPT !["customerId"] =
                     Append(@, findOneAndUpdate(counters, "customerId").sequence)]
    /\ UNCHANGED <<registrations, orders, loc, op>>

\* totalRevenue, avgOrderValue, `await Registration.countDocuments()` and the
\* response.
getOrderStats_customerCount(r) ==
    /\ pc[r] = "getOrderStats_customerCount"
    /\ \/ /\ Respond(r, StatsFailed)
          /\ loc' = [loc EXCEPT ![r] = Caught(@, "storage")]
       \/ LET totalRevenue == totalRevenueOf(loc[r].revenueResult)
              avgOrderValue == avgOrderValueOf(loc[r].totalOrders, totalRevenue)
              customerCount == Len(registrations)
          IN  /\ Respond(r, Response(200, NoValue, {},
                     [totalOrders     |-> loc[r].totalOrders,
                      deliveredOrders |-> loc[r].deliveredOrders,
                      pendingOrders   |-> loc[r].pendingOrders,
                      totalRevenue    |-> totalRevenue,
                      avgOrderValue   |-> avgOrderValue,
                      customerCount   |-> customerCount]))
              /\ UNCHANGED loc
    /\ UNCHANGED <<registrations, counters, orders, issued, op>>

(***************************************************************************)
(* POST /api/auth/register (app.js)                                        *)
(***************************************************************************)
RegisterFailed(message) == Failure(400, message, {})

\* The request arrives, checks its fields and runs to
\* `await Registration.findOne({ phoneNumber })`.
register_findOne(r) ==
    /\ pc[r] = "idle"
    /\ \E phoneNumber \in PhoneInputs :
          /\ op' = [op EXCEPT ![r] = [handler |-> "register", name |-> "Ravi",
                                      phoneNumber |-> phoneNumber,
                                      address |-> "4 Hill Street"]]
          /\ IF phoneNumber = NoValue
             THEN Respond(r, RegisterFailed(
                      "Name, phone number, and address are required"))
             ELSE \/ \* the query rejects: catch, err.message
                     Respond(r, RegisterFailed("storage"))
                  \/ IF existsPhone(registrations, phoneNumber)
                     THEN Respond(r, RegisterFailed(
                              "Phone number already registered"))
                     ELSE /\ pc' = [pc EXCEPT ![r] = "register_counter"]
                          /\ UNCHANGED resp
    /\ UNCHANGED <<registrations, counters, orders, loc, issued>>

\* `await Counter.findOneAndUpdate({_id: "customerId"}, ...)`
register_counter(r) ==
    /\ pc[r] = "register_counter"
    /\ \/ \* the update rejects: catch, err.message
          /\ Respond(r, RegisterFailed("storage"))
          /\ UNCHANGED <<counters, loc, issued>>
       \/ LET counter == findOneAndUpdate(counters, "customerId")
          IN  /\ counters' = counter.counters
              /\ issued' = [issued EXCEPT !["customerId"] =
                                              Append(@, counter.sequence)]
              /\ loc' = [loc EXCEPT ![r] =
                            [customerId |-> RenderCustomerId(counter.sequence)]]
              /\ pc' = [pc EXCEPT ![r] = "register_save"]
              /\ UNCHANGED resp
    /\ UNCHANGED <<registrations, orders, op>>

\* `await newUser.save()`: the Registration schema (models/user/Registration)
\* decides whether the document is accepted.  Storage may refuse it; when a
\* user with the phone number has been stored meanwhile, a unique index on
\* phoneNumber would refuse it as a duplicate key and no such index would
\* let it through: each outcome is possible here.
register_save(r) ==
    /\ pc[r] = "register_save"
    /\ \/ \* save rejects: catch, err.message
          /\ Respond(r, RegisterFailed("storage"))
          /\ UNCHANGED registrations
       \/ \* save rejects with a duplicate key: catch, err.message
          /\ existsPhone(registrations, op[r].phoneNumber)
          /\ Respond(r, RegisterFailed("E11000"))
          /\ UNCHANGED registrations
       \/ /\ registrations' = Append(registrations,
                [id          |-> Len(registrations) + 1,
                 name        |-> op[r].name,
                 phoneNumber |-> op[r].phoneNumber,
                 address     |-> op[r].address,
                 customerId  |-> loc[r].customerId])
          /\ Respond(r, Response(201, NoValue, {},
                 [customerId |-> loc[r].customerId]))
    /\ UNCHANGED <<counters, orders, op, loc, issued>>

(***************************************************************************)
(* Specification.                                                          *)
(***************************************************************************)
Next ==
    \E r \in Reqs :
       \/ createOrder_findById(r)
       \/ createOrder_save(r)
       \/ updateOrderStatus_findOne(r)
       \/ updateOrderStatus_save(r)
       \/ getCustomerOrders(r)
       \/ getAllOrders_find(r)
       \/ getAllOrders_populate(r)
       \/ getAllOrders_countDocuments(r)
       \/ getOrderStats_totalOrders(r)
       \/ getOrderStats_deliveredOrders(r)
       \/ getOrderStats_pendingOrders(r)
       \/ getOrderStats_aggregate(r)
       \/ getOrderStats_customerCount(r)
       \/ register_findOne(r)
       \/ register_counter(r)
       \/ register_save(r)

Spec == Init /\ [][Next]_vars

(***************************************************************************)
(* The two users of the Counter collection on their own:                   *)
(* orderSchema.pre('save') applied to a new document that has no orderId,  *)
(* and the registration route.  The orderId counter is absent or holds any *)
(* sequence up to MaxInitialSequence; the customerId counter is absent     *)
(* with no user registered, or holds 1 with the first user registered.     *)
(* For the hook, loc keeps the document as the hook leaves it and the      *)
(* sequence the counter returned to it; when the awaited counter update    *)
(* rejects, the hook ends without calling next(): the document keeps no    *)
(* orderId, no sequence was returned and the counter is unchanged.         *)
(***************************************************************************)
InitHook ==
    /\ InitRequests
    /\ orders = <<>>
    /\ \E s \in 0..MaxInitialSequence, c \in 0..1 :
          /\ registrations = [k \in 1..c |-> InitialUser]
          /\ counters = [n \in {"orderId" : x \in 1..s}
                                \cup {"customerId" : x \in 1..c}
                          |-> IF n = "orderId" THEN s ELSE c]
          /\ issued = ("customerId" :> [k \in 1..c |-> k])
                      @@ ("orderId" :> [k \in 1..s |-> k])

preSave_newDocument(r) ==
    /\ pc[r] = "idle"
    /\ \E body \in {b \in CreateInputs : b.userId = 1} :
          LET order == newOrder(orderDataOf(body, InitialUser))
              hooked == preSave(order, TRUE, counters)
          IN  /\ op' = [op EXCEPT ![r] = [handler |-> "preSave", body |-> body]]
              /\ pc' = [pc EXCEPT ![r] = "done"]
              /\ \/ \* Counter.findOneAndUpdate rejects
                    /\ loc' = [loc EXCEPT ![r] =
                                  Caught([doc |-> order], "storage")]
                    /\ UNCHANGED <<counters, issued>>
                 \/ /\ loc' = [loc EXCEPT ![r] =
                                  [doc      |-> hooked.doc,
                                   sequence |-> hooked.issued[1]]]
                    /\ counters' = hooked.counters
                    /\ issued' = [issued EXCEPT !["orderId"] =
                                                   @ \o hooked.issued]
    /\ UNCHANGED <<registrations, orders, resp>>

NextHook ==
    \E r \in Reqs :
       \/ preSave_newDocument(r)
       \/ register_findOne(r)
       \/ register_counter(r)
       \/ register_save(r)

SpecHook == InitHook /\ [][NextHook]_vars

(***************************************************************************)
(* Properties.                                                             *)
(***************************************************************************)
\* The error kind a response reports to its caller: the two 404 bodies name
\* their cause; every other failure carries only the handler's catch-all
\* message.
errorKind(response) ==
    CASE response.status \in {200, 201} -> "none"
      [] response.status = 404 /\ response.error = "User not found"
           -> "CustomerNotFound"
      [] response.status = 404 /\ response.error = "Order not found"
           -> "OrderNotFound"
      [] OTHER -> response.error

TerminalStatuses == {"delivered", "cancelled"}

\* Request r takes the step that leaves the await `at` and sends a response.
Answers(r, at) == pc[r] = at /\ pc'[r] = "done"

\* The document createOrder hands to save() never passes validation: it has
\* no orderId when validation runs and its status is outside the enum.
CreateNeverValid ==
    \A r \in Reqs :
       pc[r] = "createOrder_save" =>
          {"orderId", "status"} \subseteq
              validationErrors(newOrder(orderDataOf(op[r].body, loc[r])))

\* C2: for each counter name the stored sequence equals the number of
\* successful increments so far, and the k-th successful increment returned
\* k (the post-increment value), so no two increments return the same value.
C2_AtomicIncrement ==
    \A n \in CounterNames :
       /\ (n \in DOMAIN counters) <=> (issued[n] # <<>>)
       /\ n \in DOMAIN counters => counters[n] = Len(issued[n])
       /\ \A k \in 1..Len(issued[n]) : issued[n][k] = k

\* Two registrations have both incremented the customerId counter and are
\* both still waiting for their save.
C2_Witness ==
    \E r1, r2 \in Reqs :
       /\ r1 # r2
       /\ pc[r1] = "register_save"
       /\ pc[r2] = "register_save"

\* C3: once an order's status is delivered or cancelled, it keeps that
\* value in every later state.
C3_TerminalIsFinal ==
    [][\A i \in 1..Len(orders) :
          orders[i].status \in TerminalStatuses =>
             orders'[i].status = orders[i].status]_vars

\* C4: a status update that is applied to an order whose stored status is
\* delivered or cancelled fails with InvalidTransition and leaves the order
\* collection unchanged.
C4_TerminalRejected ==
    [][\A r \in Reqs :
          (/\ Answers(r, "updateOrderStatus_save")
           /\ orders[loc[r].id].status \in TerminalStatuses)
          => (/\ errorKind(resp'[r]) = "InvalidTransition"
              /\ orders' = orders)]_vars

\* C5: no step changes the orderId of a stored order, and the save of a
\* status update changes no counter.
C5_OrderIdImmutable ==
    [][/\ Len(orders') >= Len(orders)
       /\ \A i \in 1..Len(orders) : orders'[i].orderId = orders[i].orderId
       /\ \A r \in Reqs :
             Answers(r, "updateOrderStatus_save") => counters' = counters]_vars

\* A status update has succeeded and its status, different from the one the
\* order started with, is the stored one.
C5_Witness ==
    \E r \in Reqs :
       /\ op[r].handler = "updateOrderStatus"
       /\ resp[r].status = 200
       /\ op[r].status # InitialStatus
       /\ \E i \in 1..Len(orders) :
             /\ orders[i].orderId = op[r].orderId
             /\ orders[i].status = op[r].status

\* C8: when the user lookup of createOrder returns no document, the request
\* is answered CustomerNotFound at that step, and the step changes no order
\* and no counter.
C8_CustomerNotFound ==
    [][\A r \in Reqs :
          (/\ pc[r] = "idle"
           /\ op'[r].handler = "createOrder"
           /\ loc'[r] = NoUser)
          => (/\ pc'[r] = "done"
              /\ errorKind(resp'[r]) = "CustomerNotFound"
              /\ orders' = orders
              /\ counters' = counters)]_vars

\* A createOrder request for an unknown user has been answered 404.
C8_Witness ==
    \E r \in Reqs :
       /\ op[r].handler = "createOrder"
       /\ pc[r] = "done"
       /\ loc[r] = NoUser
       /\ resp[r].status = 404
       /\ findById(registrations, op[r].body.userId) = NoUser

\* C9: a createOrder request whose line items are empty or hold a quantity
\* below 1 or a negative price, and whose user resolved, fails with
\* InvalidLineItem, storing no order and leaving the counters alone.
C9_InvalidLineItem ==
    [][\A r \in Reqs :
          (/\ Answers(r, "createOrder_save")
           /\ ~ValidLineItems(op[r].body.products))
          => (/\ errorKind(resp'[r]) = "InvalidLineItem"
              /\ orders' = orders
              /\ counters' = counters)]_vars

\* Request r is a createOrder request that has computed its order data.
Computed(r) == op[r].handler = "createOrder" /\ "subtotal" \in DOMAIN loc[r]

\* The fixed formulas in decimal arithmetic, on amounts in units of 1/Scale:
\* an amount given in hundredths (49901 is 499.01), the sum of price x
\* quantity over a list of at most two items, 8% of a subtotal (a multiple
\* of 100, so the division is exact) and the shipping fee.
Amount(hundredths) == hundredths * 100

LineSum(products) ==
    IF Len(products) = 0 THEN 0
    ELSE IF Len(products) = 1
         THEN Amount(products[1].price * products[1].quantity)
         ELSE Amount(products[1].price * products[1].quantity
                     + products[2].price * products[2].quantity)

DecimalTax(subtotal) == (subtotal * 8) \div 100

DecimalShipping(subtotal) ==
    IF subtotal > Amount(49900) THEN 0 ELSE Amount(599)

\* The Number that stands for a decimal amount: the one its literal denotes.
Denotes(amount) == NumberOf[amount, Scale]

\* C10: the totalAmount createOrder computes for a valid line-item list is
\* the amount subtotal + tax + shipping that the fixed formulas give for the
\* list.
C10_TotalIsSum ==
    \A r \in Reqs :
       (Computed(r) /\ ValidLineItems(op[r].body.products))
       => LET subtotal == LineSum(op[r].body.products)
          IN  loc[r].totalAmount
                = Denotes(subtotal + DecimalTax(subtotal)
                          + DecimalShipping(subtotal))

\* C11: the shipping createOrder computes is 0 when the subtotal of the
\* line items is above 499 and 5.99 otherwise; a subtotal of exactly 499 is
\* charged 5.99 and a subtotal of 499.01 ships free.
C11_ShippingRule ==
    \A r \in Reqs :
       Computed(r) =>
          LET subtotal == LineSum(op[r].body.products)
          IN  /\ subtotal > Amount(49900) => loc[r].shipping = Denotes(0)
              /\ subtotal <= Amount(49900)
                    => loc[r].shipping = Denotes(Amount(599))
              /\ subtotal = Amount(49900)
                    => loc[r].shipping = Denotes(Amount(599))
              /\ subtotal = Amount(49901) => loc[r].shipping = Denotes(0)

\* C12: the subtotal createOrder computes is the sum of price x quantity
\* over the items and the tax is 8% of it; price 300 x 2 gives 600, 48, 0
\* and 648, and price 50 x 1 gives 50, 4, 5.99 and 59.99.
C12_SubtotalAndTax ==
    \A r \in Reqs :
       Computed(r) =>
          /\ loc[r].subtotal = Denotes(LineSum(op[r].body.products))
          /\ loc[r].tax = Denotes(DecimalTax(LineSum(op[r].body.products)))
          /\ op[r].body.products = <<Item(30000, 2)>>
                => /\ loc[r].subtotal = Denotes(Amount(60000))
                   /\ loc[r].tax = Denotes(Amount(4800))
                   /\ loc[r].shipping = Denotes(0)
                   /\ loc[r].totalAmount = Denotes(Amount(64800))
          /\ op[r].body.products = <<Item(5000, 1)>>
                => /\ loc[r].subtotal = Denotes(Amount(5000))
                   /\ loc[r].tax = Denotes(Amount(400))
                   /\ loc[r].shipping = Denotes(Amount(599))
                   /\ loc[r].totalAmount = Denotes(Amount(5999))

\* The decimal digits of a number of six digits, place by place.
DigitText == <<"0", "1", "2", "3", "4", "5", "6", "7", "8", "9">>
PlaceDigit(n, place) == DigitText[((n \div place) % 10) + 1]
SixDigits(n) ==
    PlaceDigit(n, 100000) \o PlaceDigit(n, 10000) \o PlaceDigit(n, 1000)
    \o PlaceDigit(n, 100) \o PlaceDigit(n, 10) \o PlaceDigit(n, 1)

\* Request r has run the pre-save hook on a new document and the counter
\* returned a sequence to it.
Hooked(r) ==
    /\ op[r].handler = "preSave"
    /\ pc[r] = "done"
    /\ "error" \notin DOMAIN loc[r]

\* C13: the orderId the hook assigns is "ORD" followed by the decimal
\* digits of 100000 + the sequence the counter returned to it (sequence 1
\* gives ORD100001), and two hook runs that were returned different
\* sequences assign different identifiers.
C13_RenderedOrderId ==
    /\ \A r \in Reqs :
          Hooked(r) =>
             /\ loc[r].doc.orderId = "ORD" \o SixDigits(100000 + loc[r].sequence)
             /\ loc[r].sequence = 1 => loc[r].doc.orderId = "ORD100001"
             /\ loc[r].sequence = 10 => loc[r].doc.orderId = "ORD100010"
    /\ \A r1, r2 \in Reqs :
          (Hooked(r1) /\ Hooked(r2) /\ loc[r1].sequence # loc[r2].sequence)
          => loc[r1].doc.orderId # loc[r2].doc.orderId

\* Two hook runs were returned the sequences 9 and 10 and assigned
\* ORD100009 and ORD100010.
C13_Witness ==
    \E r1, r2 \in Reqs :
       /\ Hooked(r1) /\ loc[r1].sequence = 9
       /\ loc[r1].doc.orderId = "ORD100009"
       /\ Hooked(r2) /\ loc[r2].sequence = 10
       /\ loc[r2].doc.orderId = "ORD100010"

\* C14: createOrder stores the order it builds with status order_confirmed
\* and reports that status: the save of a request whose user resolved,
\* unless storage refuses it, is answered 201 with status order_confirmed and
\* appends an order with status order_confirmed.
C14_StoredOrderConfirmed ==
    [][\A r \in Reqs :
          (/\ Answers(r, "createOrder_save")
           /\ ValidLineItems(op[r].body.products)
           /\ op[r].body.paymentMethod \in PaymentMethodEnum
           /\ resp'[r].details \notin {{"storage"}, {"E11000"}})
          => (/\ resp'[r].status = 201
              /\ resp'[r].data.status = "order_confirmed"
              /\ Len(orders') = Len(orders) + 1
              /\ orders'[Len(orders')].status = "order_confirmed")]_vars

\* C15: the paymentMethod of the order createOrder builds is wallet when
\* the wallet flag is set, whatever was submitted, and the submitted value
\* when it is not.
C15_WalletOverride ==
    \A r \in Reqs :
       Computed(r) =>
          /\ op[r].body.useWallet => loc[r].paymentMethod = "wallet"
          /\ ~op[r].body.useWallet
                => loc[r].paymentMethod = op[r].body.paymentMethod
          /\ newOrder(loc[r]).paymentMethod = loc[r].paymentMethod

\* One request submitted upi with the wallet flag and got wallet, another
\* submitted upi without the flag and kept upi.
C15_Witness ==
    \E r1, r2 \in Reqs :
       /\ Computed(r1) /\ op[r1].body.useWallet
       /\ op[r1].body.paymentMethod = "upi" /\ loc[r1].paymentMethod = "wallet"
       /\ Computed(r2) /\ ~op[r2].body.useWallet
       /\ op[r2].body.paymentMethod = "upi" /\ loc[r2].paymentMethod = "upi"

\* What the catch block of a handler caught, read off its locals.
caught(locals) == IF "error" \in DOMAIN locals THEN locals.error ELSE "none"

\* The status vocabulary of the order lifecycle.
Vocabulary == {"order_confirmed", "processing", "packed", "shipped",
               "out_for_delivery", "delivered", "cancelled"}

\* C16: when the order lookup of a status update completes and matches no
\* stored order, the request is answered OrderNotFound at that step, and
\* the step changes no order and no counter.
C16_OrderNotFound ==
    [][\A r \in Reqs :
          (/\ pc[r] = "idle"
           /\ op'[r].handler = "updateOrderStatus"
           /\ findOne(orders, op'[r].orderId) = NoDoc
           /\ caught(loc'[r]) # "storage")
          => (/\ pc'[r] = "done"
              /\ errorKind(resp'[r]) = "OrderNotFound"
              /\ orders' = orders
              /\ counters' = counters)]_vars

\* A status update for an identifier no stored order has was answered 404,
\* while orders are stored.
C16_Witness ==
    \E r \in Reqs :
       /\ op[r].handler = "updateOrderStatus"
       /\ pc[r] = "done"
       /\ resp[r].status = 404
       /\ Len(orders) >= 1
       /\ findOne(orders, op[r].orderId) = NoDoc

\* C17: a status update applied to an order whose stored status is not
\* delivered or cancelled succeeds for every requested status of the
\* vocabulary, unless storage refuses it: it is answered 200 with that
\* orderId and status, and the stored status is the requested one.
C17_AnyVocabularyStatus ==
    [][\A r \in Reqs :
          (/\ Answers(r, "updateOrderStatus_save")
           /\ orders[loc[r].id].status \notin TerminalStatuses
           /\ op[r].status \in Vocabulary
           /\ caught(loc'[r]) # "storage")
          => (/\ resp'[r].status = 200
              /\ resp'[r].data = [orderId |-> op[r].orderId,
                                  status  |-> op[r].status]
              /\ orders'[loc[r].id].status = op[r].status)]_vars

\* C18: the status of every stored order is a member of the vocabulary.
C18_StatusInVocabulary ==
    \A i \in 1..Len(orders) : orders[i].status \in Vocabulary

\* The status the order stored at position i had when the server started
\* (no order is added afterwards, see CreateNeverValid).
StartedWith(i) ==
    IF Len(orders) = NumArchivedOrders THEN ArchivedStatus(i)
    ELSE InitialStatusOf(i)

\* The successful status updates of the order stored at position i.
Succeeded(i) ==
    {r \in Reqs : /\ op[r].handler = "updateOrderStatus"
                  /\ pc[r] = "done"
                  /\ resp[r].status = 200
                  /\ op[r].orderId = orders[i].orderId}

\* C19: the stored status of an order is the requested status of one of the
\* status updates of it that succeeded (the one serialized last), or the
\* status it started with when none has succeeded; and each successful update
\* reports its own orderId and requested status, as it does when run alone.
C19_LastWriterWins ==
    /\ \A i \in 1..Len(orders) :
          IF Succeeded(i) = {}
          THEN orders[i].status = StartedWith(i)
          ELSE \E r \in Succeeded(i) : orders[i].status = op[r].status
    /\ \A r \in Reqs :
          (op[r].handler = "updateOrderStatus" /\ resp[r].status = 200)
          => resp[r].data = [orderId |-> op[r].orderId, status |-> op[r].status]

\* One update of an order has written its status and succeeded while another
\* update of the same order, for a different status, still holds the
\* document as it read it before that write.
C19_Witness ==
    \E r1, r2 \in Reqs :
       /\ op[r1].handler = "updateOrderStatus" /\ resp[r1].status = 200
       /\ pc[r2] = "updateOrderStatus_save"
       /\ op[r2].orderId = op[r1].orderId
       /\ op[r2].status \notin {op[r1].status, InitialStatus}
       /\ op[r2].status \in StatusEnum
       /\ loc[r2].status = InitialStatus
       /\ orders[loc[r2].id].status = op[r1].status
       /\ op[r1].status # InitialStatus

\* C20 as stated: the save of a status update leaves every stored order as
\* it was except for the status of the order it loaded; every other field
\* of that order, and every other order, is unchanged.
C20_OnlyStatusChanges ==
    [][\A r \in Reqs :
          Answers(r, "updateOrderStatus_save")
          => (/\ Len(orders') = Len(orders)
              /\ \A i \in 1..Len(orders) :
                    /\ orders'[i] = [orders[i] EXCEPT !.status = orders'[i].status]
                    /\ i # loc[r].id => orders'[i] = orders[i])]_vars

\* C20, amended: the save of a status update changes of the order it loaded
\* the status and the updatedAt timestamp only; orderId, user, customerId,
\* products, totalAmount, deliveryAddress, paymentStatus, paymentMethod and
\* createdAt of that order, and every other order, are unchanged.  A request
\* for the status the order had when it was loaded changes nothing.
C20_OnlyStatusAndUpdatedAt ==
    [][\A r \in Reqs :
          Answers(r, "updateOrderStatus_save")
          => (/\ Len(orders') = Len(orders)
              /\ \A i \in 1..Len(orders) :
                    /\ orders'[i] = [orders[i] EXCEPT
                                       !.status = orders'[i].status,
                                       !.updatedAt = orders'[i].updatedAt]
                    /\ i # loc[r].id => orders'[i] = orders[i]
              /\ op[r].status = loc[r].status => orders' = orders)]_vars

\* A status update has changed the status of the first order and set its
\* updatedAt to the time of the save, while the second order is still as it
\* started.
C20_Witness ==
    \E r \in Reqs :
       /\ op[r].handler = "updateOrderStatus" /\ resp[r].status = 200
       /\ Len(orders) >= 2
       /\ op[r].orderId = orders[1].orderId
       /\ orders[1].status = op[r].status
       /\ orders[1].status # InitialStatus
       /\ orders[1].updatedAt \in Now
       /\ orders[1].createdAt = 1
       /\ orders[2] = InitialOrder(2)

\* Request r is a call of `handler` that was answered with success.
Succeeds(r, handler) ==
    op[r].handler = handler /\ pc[r] = "done" /\ resp[r].status = 200

\* C21: every order of the admin listing shows the name, phone and address
\* of its customer as the customer record held them when the order was
\* created (no request changes a customer record, so these are the values
\* of the record the order refers to).
C21_CustomerSnapshot ==
    \A r \in Reqs :
       Succeeds(r, "getAllOrders")
       => \A i \in 1..Len(resp[r].data) :
             /\ resp[r].data[i].customerName = loc[r].orders[i].user.name
             /\ resp[r].data[i].customerPhone
                  = loc[r].orders[i].user.phoneNumber
             /\ resp[r].data[i].customerAddress = loc[r].orders[i].user.address

\* The step is one of createOrder for request r.
CreateStep(r) ==
    /\ pc[r] # pc'[r]
    /\ op'[r].handler = "createOrder"

\* C22: no step of createOrder changes a customer record, whether the
\* request is answered 201, 404 or 500 and whether or not useWallet is set.
C22_CustomersUnchanged ==
    [][\A r \in Reqs : CreateStep(r) => registrations' = registrations]_vars

\* createOrder requests have been answered for a customer that exists, one
\* with useWallet set and one without, and the customer records are stored.
C22_Witness ==
    \E r1, r2 \in Reqs :
       /\ op[r1].handler = "createOrder" /\ pc[r1] = "done"
       /\ op[r2].handler = "createOrder" /\ pc[r2] = "done"
       /\ op[r1].body.useWallet /\ ~op[r2].body.useWallet
       /\ findById(registrations, op[r1].body.userId) # NoUser
       /\ findById(registrations, op[r2].body.userId) # NoUser

\* C23: unless the query is refused by storage, getCustomerOrders answers
\* with success and lists exactly the stored orders whose user is the one
\* asked for, each once and as it is stored, the later created before the
\* earlier; for a user without orders the list is empty.
C23_CustomerOrders ==
    [][\A r \in Reqs :
          (/\ pc[r] = "idle"
           /\ op'[r].handler = "getCustomerOrders"
           /\ caught(loc'[r]) # "storage")
          => LET data == resp'[r].data
             IN  /\ resp'[r].status = 200
                 /\ {data[i].id : i \in 1..Len(data)}
                      = {k \in 1..Len(orders) : orders[k].user = op'[r].userId}
                 /\ \A i \in 1..Len(data) :
                       /\ data[i].orderId = orders[data[i].id].orderId
                       /\ data[i].status = orders[data[i].id].status
                       /\ data[i].totalAmount = orders[data[i].id].totalAmount
                 /\ \A i, j \in 1..Len(data) :
                       i < j => data[i].createdAt > data[j].createdAt]_vars

\* Of a store that holds orders of two customers, one request listed the
\* several orders of the second customer and another got the empty list of a
\* customer who has none.
C23_Witness ==
    \E r1, r2 \in Reqs :
       /\ Succeeds(r1, "getCustomerOrders") /\ Succeeds(r2, "getCustomerOrders")
       /\ op[r1].userId = SecondUser.id
       /\ Len(resp[r1].data) >= 2
       /\ Len(resp[r1].data) < Len(orders)
       /\ resp[r2].data = <<>>

\* C24: a successful answer of getAllOrders for page >= 1 and limit >= 1
\* reports totalOrders = the number of orders matching the filter,
\* totalPages = the least number of pages of that size that hold them all,
\* hasNextPage = (page < totalPages) and hasPrevPage = (page > 1); for 23
\* matching orders, limit 10 and page 3 it lists 3 orders and reports
\* totalPages 3, hasNextPage false and hasPrevPage true.
C24_Pagination ==
    [][\A r \in Reqs :
          (/\ Answers(r, "getAllOrders_countDocuments")
           /\ resp'[r].status = 200
           /\ pageOf(op[r].query) >= 1
           /\ limitOf(op[r].query) >= 1)
          => LET page == pageOf(op[r].query)
                 pageSize == limitOf(op[r].query)
                 meta == resp'[r].pagination
             IN  /\ meta.currentPage = page
                 /\ meta.totalOrders
                      = Cardinality({k \in 1..Len(orders) :
                           matches(orders[k], statusQuery(op[r].query))})
                 /\ meta.totalPages * pageSize >= meta.totalOrders
                 /\ (meta.totalPages - 1) * pageSize < meta.totalOrders
                 /\ meta.hasNextPage = (page < meta.totalPages)
                 /\ meta.hasPrevPage = (page > 1)
                 /\ (meta.totalOrders = 23 /\ pageSize = 10 /\ page = 3)
                    => /\ Len(resp'[r].data) = 3
                       /\ meta.totalPages = 3
                       /\ meta.hasNextPage = FALSE
                       /\ meta.hasPrevPage = TRUE]_vars

\* Page 3 of 23 orders in pages of 10 has been listed.
C24_Witness ==
    \E r \in Reqs :
       /\ Succeeds(r, "getAllOrders")
       /\ pageOf(op[r].query) = 3 /\ limitOf(op[r].query) = 10
       /\ resp[r].pagination.totalOrders = 23
       /\ Len(resp[r].data) = 3

\* No request other than r has written a status so far: the orders are as
\* they were when the server started.
Quiet(r) ==
    \A q \in Reqs \ {r} :
       ~(op[q].handler = "updateOrderStatus" /\ resp[q].status = 200)

\* The orders a listing query ranges over.
Matching(query) ==
    {k \in 1..Len(orders) : matches(orders[k], statusQuery(query))}

\* C25: a listing request for a page beyond the last one is not refused: its
\* query goes through, and unless storage fails it is answered with success,
\* no orders, hasNextPage false, and the total count and the totalPages that
\* every page of that listing reports.
C25_PageOutOfRange ==
    [][\A r \in Reqs :
          LET query == op'[r].query
              OutOfRange ==
                 /\ limitOf(query) >= 1
                 /\ (pageOf(query) - 1) * limitOf(query)
                      >= Cardinality(Matching(query))
          IN  /\ (/\ pc[r] = "idle"
                  /\ op'[r].handler = "getAllOrders"
                  /\ OutOfRange
                  /\ caught(loc'[r]) # "storage")
                 => /\ pc'[r] = "getAllOrders_countDocuments"
                    /\ loc'[r].orders = <<>>
              /\ (/\ Answers(r, "getAllOrders_countDocuments")
                  /\ OutOfRange
                  /\ Quiet(r)
                  /\ caught(loc'[r]) # "storage")
                 => /\ resp'[r].status = 200
                    /\ resp'[r].data = <<>>
                    /\ resp'[r].pagination
                         = [pagination(1, limitOf(query),
                                       Cardinality(Matching(query)))
                              EXCEPT !.currentPage = pageOf(query),
                                     !.hasNextPage = FALSE,
                                     !.hasPrevPage = pageOf(query) > 1]]_vars

\* Page 4 of a listing that has 3 pages has been answered with success and
\* no orders.
C25_Witness ==
    \E r \in Reqs :
       /\ Succeeds(r, "getAllOrders")
       /\ resp[r].pagination.totalPages = 3
       /\ resp[r].pagination.currentPage = 4
       /\ resp[r].data = <<>>

\* The stored orders a listing is to range over: those with the status asked
\* for, or every order when no status or "all" is asked for.
Ranges(query) ==
    IF "status" \in DOMAIN query /\ query.status # "all"
    THEN {k \in 1..Len(orders) : orders[k].status = query.status}
    ELSE 1..Len(orders)

\* The smaller of two numbers.
Min(a, b) == IF a < b THEN a ELSE b

\* C26: the page a listing query reads holds only orders the listing is to
\* range over (orders of the status asked for, or any order when the status
\* is absent or "all"), as many as the range has left for that page; and the
\* total the answer reports is the size of that range.
C26_StatusFilter ==
    [][\A r \in Reqs :
          /\ (/\ pc[r] = "idle"
              /\ pc'[r] \in {"getAllOrders_populate",
                             "getAllOrders_countDocuments"})
             => LET query == op'[r].query
                    page == loc'[r].orders
                    left == Cardinality(Ranges(query))
                            - (pageOf(query) - 1) * limitOf(query)
                IN  /\ \A i \in 1..Len(page) : page[i].id \in Ranges(query)
                    /\ \A i, j \in 1..Len(page) :
                          i # j => page[i].id # page[j].id
                    /\ Len(page) = IF left < 0 THEN 0
                                   ELSE Min(left, limitOf(query))
          /\ (/\ Answers(r, "getAllOrders_countDocuments")
              /\ resp'[r].status = 200)
             => LET query == op[r].query
                IN  /\ resp'[r].pagination.totalOrders
                         = Cardinality(Ranges(query))
                    /\ \A i \in 1..Len(resp'[r].data) :
                          /\ resp'[r].data[i].orderId = loc[r].orders[i].orderId
                          /\ resp'[r].data[i].status = loc[r].orders[i].status]_vars

\* One listing asked for the delivered orders and got some but not all
\* orders, each delivered; another asked for "all" and its total is the
\* number of stored orders.
C26_Witness ==
    \E r1, r2 \in Reqs :
       /\ Succeeds(r1, "getAllOrders") /\ Succeeds(r2, "getAllOrders")
       /\ op[r1].query = ("status" :> "delivered")
       /\ Len(resp[r1].data) >= 2
       /\ resp[r1].pagination.totalOrders < Len(orders)
       /\ \A i \in 1..Len(resp[r1].data) : resp[r1].data[i].status = "delivered"
       /\ op[r2].query = ("status" :> "all")
       /\ resp[r2].pagination.totalOrders = Len(orders)
       /\ Len(resp[r2].data) = 10

\* The sum of totalAmount over the delivered ones of the first n orders.
RECURSIVE DeliveredRevenue(_)
DeliveredRevenue(n) ==
    IF n = 0 THEN 0
    ELSE DeliveredRevenue(n - 1)
         + (IF orders[n].status = "delivered" THEN orders[n].totalAmount ELSE 0)

\* C27: while no other request has changed the store, a successful
\* getOrderStats reports totalOrders = the number of orders,
\* deliveredOrders = the number with status delivered, pendingOrders = the
\* number with status order_confirmed, processing, packed, shipped or
\* out_for_delivery, and totalRevenue = the sum of totalAmount over the
\* delivered orders (0 when there is none).
C27_Statistics ==
    \A r \in Reqs :
       (Succeeds(r, "getOrderStats") /\ Quiet(r))
       => /\ resp[r].data.totalOrders = Len(orders)
          /\ resp[r].data.deliveredOrders
               = Cardinality({k \in 1..Len(orders) :
                                 orders[k].status = "delivered"})
          /\ resp[r].data.pendingOrders
               = Cardinality({k \in 1..Len(orders) :
                                 orders[k].status \in
                                    {"order_confirmed", "processing", "packed",
                                     "shipped", "out_for_delivery"}})
          /\ resp[r].data.totalRevenue = DeliveredRevenue(Len(orders))

\* Statistics have been reported of a store that holds delivered orders,
\* orders in flight and others.
C27_Witness ==
    \E r \in Reqs :
       /\ Succeeds(r, "getOrderStats") /\ Quiet(r)
       /\ resp[r].data.deliveredOrders >= 2
       /\ resp[r].data.pendingOrders >= 2
       /\ resp[r].data.totalOrders
            > resp[r].data.deliveredOrders + resp[r].data.pendingOrders
       /\ resp[r].data.totalRevenue > 0

\* C28: a successful getOrderStats reports avgOrderValue = totalRevenue /
\* totalOrders when it counted at least one order, and avgOrderValue = 0 when
\* it counted none; counting no order is answered with success.
C28_AverageOrderValue ==
    /\ \A r \in Reqs :
          Succeeds(r, "getOrderStats")
          => LET data == resp[r].data
             IN  /\ data.avgOrderValue.denominator # 0
                 /\ IF data.totalOrders > 0
                    THEN data.avgOrderValue.numerator * data.totalOrders
                           = data.totalRevenue * data.avgOrderValue.denominator
                    ELSE data.avgOrderValue.numerator = 0
    /\ \A r \in Reqs :
          (/\ op[r].handler = "getOrderStats" /\ pc[r] = "done"
           /\ caught(loc[r]) # "storage")
          => resp[r].status = 200

\* Statistics of a store without orders have been reported, with success
\* and average 0.
C28_Witness ==
    \E r \in Reqs :
       /\ Succeeds(r, "getOrderStats")
       /\ orders = <<>>
       /\ resp[r].data.totalOrders = 0
       /\ resp[r].data.avgOrderValue.numerator = 0

\* Request r is a createOrder or updateOrderStatus that was answered with a
\* failure.
Failed(r) ==
    /\ op[r].handler \in {"createOrder", "updateOrderStatus"}
    /\ pc[r] = "done"
    /\ resp[r].status \notin {200, 201}

\* What made request r fail: the lookup that found nothing, the storage call
\* that rejected, or the error that save() raised.
Cause(r) ==
    CASE resp[r].status = 404 -> resp[r].error
      [] op[r].handler = "updateOrderStatus" -> caught(loc[r])
      [] resp[r].details = {"storage"} -> "storage"
      [] OTHER -> "ValidationError"

\* C29: two failures of createOrder or updateOrderStatus that have different
\* causes can be told apart by what their responses say (status, error and
\* details), and a request in which an error was caught is not answered with
\* success.
C29_DistinctErrorKinds ==
    /\ \A r1, r2 \in Reqs :
          (Failed(r1) /\ Failed(r2) /\ Cause(r1) # Cause(r2))
          => resp[r1] # resp[r2]
    /\ \A r \in Reqs :
          (pc[r] = "done" /\ caught(loc[r]) # "none")
          => resp[r].status \notin {200, 201}

\* The handlers that only report.
ReadHandlers == {"getCustomerOrders", "getAllOrders", "getOrderStats"}

\* C30: no step of getCustomerOrders, getAllOrders or getOrderStats changes
\* an order, a customer record or a counter.
C30_ReadOnly ==
    [][\A r \in Reqs :
          (pc'[r] # pc[r] /\ op'[r].handler \in ReadHandlers)
          => /\ orders' = orders
             /\ registrations' = registrations
             /\ counters' = counters]_vars

\* Statistics and an admin listing have both been answered with success on
\* a store that holds orders, customers and counters.
C30_Witness ==
    \E r1, r2 \in Reqs :
       /\ Succeeds(r1, "getOrderStats")
       /\ Succeeds(r2, "getAllOrders")
       /\ Len(resp[r2].data) >= 1
       /\ resp[r1].data.customerCount >= 1
       /\ DOMAIN counters = CounterNames

\* The sequence of a counter, 0 while the counter does not exist.
sequenceOf(cs, name) == IF name \in DOMAIN cs THEN cs[name] ELSE 0

\* C31: a createOrder request increments the orderId counter at most once:
\* only its save step can increment it, that step increments it by at most
\* one, and the step ends the request with its answer (a failure of the save
\* is answered 500, nothing is tried again).
C31_AtMostOneIncrement ==
    [][\A r \in Reqs :
          CreateStep(r)
          => /\ pc[r] # "createOrder_save"
                => sequenceOf(counters', "orderId")
                     = sequenceOf(counters, "orderId")
             /\ pc[r] = "createOrder_save"
                => /\ sequenceOf(counters', "orderId")
                        \in {sequenceOf(counters, "orderId"),
                             sequenceOf(counters, "orderId") + 1}
                   /\ Len(issued'["orderId"]) <= Len(issued["orderId"]) + 1
                   /\ pc'[r] = "done"
                   /\ resp'[r].status \in {201, 500}]_vars

\* A createOrder request for a customer that exists has gone through its
\* save step and has been answered with the failure.
C31_Witness ==
    \E r \in Reqs :
       /\ op[r].handler = "createOrder" /\ pc[r] = "done"
       /\ resp[r].status = 500
       /\ "subtotal" \in DOMAIN loc[r]
       /\ ValidLineItems(op[r].body.products)

\* C32: a counter that does not exist is created by the first allocation
\* for its name, which returns 1 (the hook then renders ORD100001); a counter
\* that exists stays, and its sequence either stays or goes up by one; and
\* the sequence changes only in a step that is an allocation returning the
\* new value.
C32_CounterLifecycle ==
    [][/\ \A n \in CounterNames :
             /\ n \in DOMAIN counters
                => /\ n \in DOMAIN counters'
                   /\ counters'[n] \in {counters[n], counters[n] + 1}
             /\ (n \notin DOMAIN counters /\ n \in DOMAIN counters')
                => counters'[n] = 1
             /\ sequenceOf(counters', n) # sequenceOf(counters, n)
                => issued'[n] = Append(issued[n], counters'[n])
       /\ \A r \in Reqs :
             (/\ pc[r] = "idle"
              /\ op'[r].handler = "preSave"
              /\ "error" \notin DOMAIN loc'[r]
              /\ "orderId" \notin DOMAIN counters)
             => /\ loc'[r].sequence = 1
                /\ loc'[r].doc.orderId = "ORD100001"
                /\ counters'["orderId"] = 1]_vars

\* The orderId counter has been created by one application of the hook,
\* which was given 1, and incremented by another, which was given 2.
C32_Witness ==
    \E r1, r2 \in Reqs :
       /\ Hooked(r1) /\ Hooked(r2)
       /\ loc[r1].sequence = 1 /\ loc[r1].doc.orderId = "ORD100001"
       /\ loc[r2].sequence = 2
       /\ counters["orderId"] = 2

\* The counter with this name, as a set: empty while it does not exist.
rowOf(cs, name) == {cs[n] : n \in DOMAIN cs \cap {name}}

\* C33: an application of the hook changes the orderId counter only and a
\* registration changes the customerId counter only: the other counter
\* keeps its existence, its sequence and the values it has returned, and
\* the value an allocation returns is one more than its own counter's
\* sequence whatever the other counter holds.
C33_CountersIndependent ==
    [][\A r \in Reqs :
          /\ (pc[r] = "idle" /\ op'[r].handler = "preSave")
             => /\ rowOf(counters', "customerId") = rowOf(counters, "customerId")
                /\ issued'["customerId"] = issued["customerId"]
                /\ "error" \notin DOMAIN loc'[r]
                   => loc'[r].sequence = sequenceOf(counters, "orderId") + 1
          /\ (pc[r] # pc'[r] /\ op'[r].handler = "register")
             => /\ rowOf(counters', "orderId") = rowOf(counters, "orderId")
                /\ issued'["orderId"] = issued["orderId"]
          /\ (pc[r] = "register_counter" /\ pc'[r] = "register_save")
             => loc'[r].customerId
                  = RenderCustomerId(sequenceOf(counters, "customerId") + 1)]_vars

\* Both counters exist with different sequences, the hook has been given an
\* orderId value and a registration a customerId value.
C33_Witness ==
    \E r1, r2 \in Reqs :
       /\ Hooked(r1)
       /\ op[r2].handler = "register" /\ pc[r2] = "done"
       /\ resp[r2].status = 201
       /\ DOMAIN counters = CounterNames
       /\ counters["orderId"] = loc[r1].sequence
       /\ counters["orderId"] > counters["customerId"] + 1
       /\ counters["customerId"] = 2

\* C35: every successful getOrderStats reports deliveredOrders +
\* pendingOrders <= totalOrders, whatever other requests were applied
\* between its reads.
C35_CountsConsistent ==
    \A r \in Reqs :
       Succeeds(r, "getOrderStats")
       => resp[r].data.deliveredOrders + resp[r].data.pendingOrders
            <= resp[r].data.totalOrders

\* Request r is a registration that was turned down because its phone
\* number is registered: by the handler's own test or by a duplicate key.
AlreadyRegistered(r) ==
    /\ op[r].handler = "register" /\ pc[r] = "done"
    /\ resp[r].error \in {"Phone number already registered", "E11000"}

\* C36: no two stored users have the same phone number; of the
\* registrations asking for one phone number at most one is answered 201;
\* and a registration turned down because the phone number is registered
\* has taken no value of the customerId counter.
C36_OneUserPerPhone ==
    /\ \A i, j \in 1..Len(registrations) :
          i # j => registrations[i].phoneNumber # registrations[j].phoneNumber
    /\ \A r1, r2 \in Reqs :
          (/\ r1 # r2
           /\ op[r1].handler = "register" /\ op[r2].handler = "register"
           /\ op[r1].phoneNumber = op[r2].phoneNumber)
          => ~(resp[r1].status = 201 /\ resp[r2].status = 201)
    /\ \A r \in Reqs :
          AlreadyRegistered(r) => "customerId" \notin DOMAIN loc[r]

====
